---- MODULE Spec2Model ----
(***************************************************************************)
(* The spreadsheet-backed daily record store of src/main.py: get_sheet     *)
(* (lazy header reconciliation), load_all_data (cached read), the          *)
(* auto-load of the record tab and save_daily_record (upsert by date),     *)
(* run by two browser sessions against one worksheet.  Every call of the   *)
(* worksheet API is one step, so that two sessions interleave between      *)
(* calls, and every call may raise.  A load goes on with the rest of the   *)
(* script run: progress bar, list tab and stats tab.  The flat-file        *)
(* variant of src/app.py (load_data, save_data on diary.csv) has its own   *)
(* specification, SpecFile.                                                *)
(***************************************************************************)
EXTENDS Integers, Sequences, FiniteSets, TLC

VARIABLES
    rows,         \* the worksheet's cells: a sequence of rows of strings
    col_count,    \* the worksheet grid's number of columns (sheet.col_count)
    cache,        \* st.cache_data entry of load_all_data, or NoCache
    clock,        \* datetime.now(), in seconds
    pc,           \* per session: the API call the session is about to make
    op,           \* per session: the running operation and its arguments
    loc,          \* per session: the locals of the running operation
    failures,     \* the API calls that raised so far
    before,       \* history: the cells when the running operations began
    earlier,      \* history: the cells when the operation before them began
    overlapped,   \* history: two operations have run at the same time
    started,      \* history: the number of operations begun
    history,      \* history: the last operations that returned, in order
    last,         \* history: what the operation that returned last did
    data_file,    \* the flat-file variant: diary.csv, as its lines of cells
    file_call     \* history: the last save_data call of the flat-file variant

vars == <<rows, col_count, cache, clock, pc, op, loc, failures,
          before, earlier, overlapped, started, history, last,
          data_file, file_call>>

\* the state of the flat-file variant (src/app.py)
file_vars == <<data_file, file_call>>

\* the state of the spreadsheet variant (src/main.py) but the clock and the
\* number of operations begun
sheet_vars == <<rows, col_count, cache, pc, op, loc, failures,
                before, earlier, overlapped, history, last>>

\* ------------------------------------------------------------------ bounds
MaxOps == 3          \* operations started in one behaviour
MaxFailures == 1     \* API calls that raise in one behaviour
MaxEvents == 4       \* operations started and calls that raise, together
DefaultCols == 26    \* columns of a worksheet nobody resized
OldCols == 3         \* columns of a worksheet an older generation resized

Sessions == {1, 2}

\* a race is one operation of each session
RaceOps == Cardinality(Sessions)

\* ------------------------------------------------------------- data values
EXPECTED_HEADERS ==
    <<"Date", "BlocksJSON", "NewIdeas", "FunnyEpisodes", "NextAction",
      "TotalBlocks", "Timestamp">>

required_col_count == Len(EXPECTED_HEADERS)

NoDate == [year |-> 0, month |-> 0, day |-> 0]
D1 == [year |-> 2024, month |-> 1, day |-> 1]
D3 == [year |-> 2024, month |-> 3, day |-> 1]
Dates == {D1, D3}

Pad2(n) == IF n < 10 THEN "0" \o ToString(n) ELSE ToString(n)

\* str(date) of a datetime.date: YYYY-MM-DD
str(date) == ToString(date.year) \o "-" \o Pad2(date.month) \o "-" \o Pad2(date.day)

B1 == [category |-> "play", title |-> "game", count |-> 2]
B2 == [category |-> "study", title |-> "read", count |-> 1]
BlockLists == {<<>>, <<B1>>, <<B1, B2>>}

R0 == [blocks |-> <<>>, new_ideas |-> "x", funny_ep |-> "", next_action |-> ""]
R1 == [blocks |-> <<B1, B2>>, new_ideas |-> "i1", funny_ep |-> "f1", next_action |-> "n1"]
Records == {R0, R1}

\* a record of an older generation: one block, new ideas, no more
R2 == [blocks |-> <<B1>>, new_ideas |-> "i2", funny_ep |-> "", next_action |-> ""]

\* an object somebody typed into a BlocksJSON cell: no category, no count
Bx == [title |-> "x"]

\* the values json.loads returns here: the lists of blocks the program wrote
\* and a list of an object of another shape
JsonValues == BlockLists \cup {<<Bx>>}

\* a cell text that is no JSON at all
NotJson == "oops"

\* json.dumps of a list of objects: a text that json.loads reads back
json_dumps(blocks) == ToString(blocks)

\* json.loads(text) does not raise
JsonValid(text) == \E v \in JsonValues : json_dumps(v) = text

\* json.loads of a cell; only texts with JsonValid parse
json_loads(text) == CHOOSE v \in JsonValues : json_dumps(v) = text

\* datetime.strptime(text, "%Y-%m-%d") does not raise
strptime_ok(text) == \E d \in Dates : str(d) = text

\* datetime.strptime(text, "%Y-%m-%d").date()
strptime(text) == CHOOSE d \in Dates : str(d) = text

RECURSIVE SumCounts(_)
SumCounts(blocks) ==
    IF blocks = <<>> THEN 0 ELSE Head(blocks).count + SumCounts(Tail(blocks))

\* a slip: the number of blocks instead of the sum of their counts
total_blocks_len(blocks) == Len(blocks)

\* total_blocks = sum(b['count'] for b in blocks)
total_blocks(blocks) == SumCounts(blocks)

\* timestamp = datetime.now().strftime(...)
strftime(t) == "T" \o ToString(t)

\* -------------------------------------------------------- worksheet (gspread)
Max(a, b) == IF a > b THEN a ELSE b

RECURSIVE Trim(_)
\* a row without its trailing empty cells
Trim(row) ==
    IF row = <<>> THEN <<>>
    ELSE IF row[Len(row)] = "" THEN Trim(SubSeq(row, 1, Len(row) - 1))
    ELSE row

RECURSIVE TrimRows(_)
\* the rows without the trailing empty rows
TrimRows(rs) ==
    IF rs = <<>> THEN <<>>
    ELSE IF rs[Len(rs)] = <<>> THEN TrimRows(SubSeq(rs, 1, Len(rs) - 1))
    ELSE rs

PadTo(row, n) == [c \in 1..Max(n, Len(row)) |-> IF c <= Len(row) THEN row[c] ELSE ""]

RECURSIVE Width(_)
Width(rs) == IF rs = <<>> THEN 0 ELSE Max(Len(Head(rs)), Width(Tail(rs)))

\* sheet.get_all_values(): the used range, every row padded to its width
get_all_values(rs) == [r \in 1..Len(rs) |-> PadTo(rs[r], Width(rs))]

\* sheet.row_values(r): the row without trailing empty cells
row_values(rs, r) == IF r <= Len(rs) THEN rs[r] ELSE <<>>

\* sheet.cell(r, c).value; an empty cell reads as ""
cell(rs, r, c) == IF r <= Len(rs) /\ c <= Len(rs[r]) THEN rs[r][c] ELSE ""

\* sheet.update_cell(r, c, value)
update_cell(rs, r, c, value) ==
    LET grown == [k \in 1..Max(r, Len(rs)) |-> IF k <= Len(rs) THEN rs[k] ELSE <<>>]
        row   == [PadTo(grown[r], c) EXCEPT ![c] = value]
    IN  TrimRows([grown EXCEPT ![r] = Trim(row)])

\* a slip: the new row goes in below the header (insert_row(values, 2))
insert_row_2(rs, values) ==
    IF rs = <<>> THEN <<Trim(values)>> ELSE <<rs[1], Trim(values)>> \o Tail(rs)

\* sheet.append_row(values): a new row after the last row that holds data
append_row(rs, values) == Append(rs, Trim(values))

RECURSIVE Matches(_, _, _)
Matches(rs, query, r) ==
    IF r > Len(rs) THEN <<>>
    ELSE IF cell(rs, r, 1) = query THEN <<r>> \o Matches(rs, query, r + 1)
    ELSE Matches(rs, query, r + 1)

\* a slip: the search looks in column 2, where no date is
findall_column_2(rs, query) ==
    LET hits == {r \in 1..Len(rs) : cell(rs, r, 2) = query}
    IN  IF hits = {} THEN <<>> ELSE <<CHOOSE r \in hits : TRUE>>

\* sheet.findall(query, in_column=1): the rows of the matching cells, in order
findall(rs, query) == Matches(rs, query, 1)

\* ------------------------------------------------------------ pandas frame
EmptyDF == [columns |-> <<>>, data |-> <<>>]

\* pd.DataFrame(rows[1:], columns=headers)
DataFrame(data, headers) == [columns |-> headers, data |-> data]

\* df.empty
empty(df) == df.data = <<>> \/ df.columns = <<>>

HasCol(df, name) == \E c \in 1..Len(df.columns) : df.columns[c] = name

ColIdx(df, name) == CHOOSE c \in 1..Len(df.columns) : df.columns[c] = name

\* row.get(name, "")
row_get(df, row, name) == IF HasCol(df, name) THEN row[ColIdx(df, name)] ELSE ""

\* the body of load_all_data once the sheet is there
frame_of(rs) ==
    LET values == get_all_values(rs)
    IN  IF values = <<>> THEN EmptyDF ELSE DataFrame(Tail(values), Head(values))

NoCache == [hit |-> FALSE, df |-> EmptyDF]
Cached(df) == [hit |-> TRUE, df |-> df]

\* ------------------------------------------------- auto-load on date change
ClearedForm ==
    [temp_blocks |-> <<>>, form_ideas |-> "", form_funny |-> "", form_next |-> ""]

\* df[df['Date'] == date_str].iloc[0]: the first row of that date, or <<>>
first_row(df, date_str) ==
    LET d == ColIdx(df, "Date")
        hits == {k \in 1..Len(df.data) : df.data[k][d] = date_str}
    IN  IF hits = {} THEN <<>>
        ELSE df.data[CHOOSE k \in hits : \A j \in hits : k <= j]

\* the form fields the try block of the auto-load sets from the row
form_of(df, row) ==
    IF HasCol(df, "BlocksJSON") /\ JsonValid(row[ColIdx(df, "BlocksJSON")])
    THEN [temp_blocks |-> json_loads(row[ColIdx(df, "BlocksJSON")]),
          form_ideas  |-> row_get(df, row, "NewIdeas"),
          form_funny  |-> row_get(df, row, "FunnyEpisodes"),
          form_next   |-> row_get(df, row, "NextAction")]
    ELSE ClearedForm

\* the auto-load of the record tab: "raised" is the KeyError of df['Date']
auto_load(df, date) ==
    IF empty(df) THEN [status |-> "ok", row |-> <<>>, form |-> ClearedForm]
    ELSE IF ~HasCol(df, "Date")
    THEN [status |-> "raised", row |-> <<>>, form |-> ClearedForm]
    ELSE LET row == first_row(df, str(date))
         IN  IF row = <<>> THEN [status |-> "ok", row |-> <<>>, form |-> ClearedForm]
             ELSE [status |-> "ok", row |-> row, form |-> form_of(df, row)]

\* ------------------------------------------- progress bar, list tab, stats tab
\* b['category'], b['title'] and b['count'] of every block are there, as the
\* loops that draw the blocks read them
drawable(blocks) ==
    \A n \in 1..Len(blocks) : {"category", "title", "count"} \subseteq DOMAIN blocks[n]

\* try: blocks = json.loads(row['BlocksJSON']) / except: blocks = []
row_blocks(df, row) ==
    IF HasCol(df, "BlocksJSON") /\ JsonValid(row[ColIdx(df, "BlocksJSON")])
    THEN json_loads(row[ColIdx(df, "BlocksJSON")])
    ELSE <<>>

\* the list tab: the blocks it draws for each row of the frame, by the row's
\* place in the frame (the tab shows the rows by descending Date); "raised"
\* is the KeyError of b['category'] in the drawing loop
list_tab(df) ==
    IF empty(df) THEN [status |-> "ok", blocks |-> <<>>]
    ELSE IF ~HasCol(df, "Date") THEN [status |-> "raised", blocks |-> <<>>]
    ELSE LET blocks == [k \in 1..Len(df.data) |-> row_blocks(df, df.data[k])]
         IN  IF \A k \in 1..Len(df.data) : drawable(blocks[k])
             THEN [status |-> "ok", blocks |-> blocks]
             ELSE [status |-> "raised", blocks |-> <<>>]

\* b['DateObj'] = d; b['Date'] = row['Date']
dated(b, d, date_str) ==
    [k \in DOMAIN b \cup {"DateObj", "Date"} |->
        IF k = "DateObj" THEN d ELSE IF k = "Date" THEN date_str ELSE b[k]]

\* a slip: only the first block of a row goes to the statistics
row_entries_first(bs, d, date_str) ==
    IF bs = <<>> THEN <<>> ELSE <<dated(bs[1], d, date_str)>>

\* for b in bs: ...; all_blocks.append(b)
row_entries(bs, d, date_str) == [n \in 1..Len(bs) |-> dated(bs[n], d, date_str)]

\* the try block of the stats tab for one row; except: pass
stats_row(df, row) ==
    IF /\ HasCol(df, "BlocksJSON") /\ JsonValid(row[ColIdx(df, "BlocksJSON")])
       /\ HasCol(df, "Date") /\ strptime_ok(row[ColIdx(df, "Date")])
    THEN row_entries(json_loads(row[ColIdx(df, "BlocksJSON")]),
                     strptime(row[ColIdx(df, "Date")]), row[ColIdx(df, "Date")])
    ELSE <<>>

RECURSIVE flatten(_, _)
\* for _, row in df_c.iterrows(): the entries of the rows from row k on
flatten(df, k) ==
    IF k > Len(df.data) THEN <<>>
    ELSE stats_row(df, df.data[k]) \o flatten(df, k + 1)

\* all_blocks of the stats tab
all_blocks(df) == IF empty(df) THEN <<>> ELSE flatten(df, 1)

\* One script run after the date input changed, on the frame load_all_data
\* gave: the auto-load, the progress bar over temp_blocks, the list tab and
\* the stats tab.  An exception ends the run; stopped names the place; stats
\* says whether the stats tab had blocks to chart (if all_blocks).
script_run(df, date) ==
    LET a == auto_load(df, date)
        l == list_tab(df)
        stopped == IF a.status = "raised" THEN "auto-load"
                   ELSE IF ~drawable(a.form.temp_blocks) THEN "progress bar"
                   ELSE IF l.status = "raised" THEN "list tab"
                   ELSE ""
    IN  [status |-> a.status, row |-> a.row, form |-> a.form, stopped |-> stopped,
         stats |-> stopped = "" /\ all_blocks(df) # <<>>]

\* ---------------------------------------------------------------- sessions
Idle == [name |-> "idle", date |-> NoDate, rec |-> R0]
Loc0 == [current_headers |-> <<>>, i |-> 0, row_idx |-> 0, col |-> 0,
         timestamp |-> "", writes |-> 0]

AllIdle == \A s \in Sessions : pc[s] = "idle"

\* the history keeps the last three operations
Remember(entry) ==
    LET h == Append(history, entry)
    IN  IF Len(h) > 3 THEN Tail(h) ELSE h

NoView == [status |-> "ok", row |-> <<>>, form |-> ClearedForm, stopped |-> "",
           stats |-> FALSE]

\* the operation of session s returns: what it did goes to the history.
\* sheet: get_sheet returned the sheet; raised: a call of the API raised;
\* writes: the update_cell and append_row calls of the save that completed
Return(s, sheet, raised, writes, result, df, view) ==
    /\ pc' = [pc EXCEPT ![s] = "idle"]
    /\ op' = [op EXCEPT ![s] = Idle]
    /\ loc' = [loc EXCEPT ![s] = Loc0]
    /\ history' = Remember(
          [name |-> op[s].name, date |-> op[s].date, rec |-> op[s].rec,
           sheet |-> sheet, result |-> result])
    /\ last' = [sheet |-> sheet, raised |-> raised, writes |-> writes,
                row_idx |-> loc[s].row_idx, timestamp |-> loc[s].timestamp,
                df |-> df, row |-> view.row, form |-> view.form,
                stopped |-> view.stopped, stats |-> view.stats]

NoLast == [sheet |-> FALSE, raised |-> FALSE, writes |-> 0, row_idx |-> 0,
           timestamp |-> "", df |-> EmptyDF, row |-> <<>>, form |-> ClearedForm,
           stopped |-> "", stats |-> FALSE]

\* load_all_data returns df (and st.cache_data keeps it); the script run goes
\* on with it
ReturnLoad(s, sheet, raised, df) ==
    LET view == script_run(df, op[s].date)
    IN  /\ cache' = Cached(df)
        /\ Return(s, sheet, raised, 0, view.status, df, view)

\* a slip: the save leaves the cached frame in place
cache_kept(c) == c

\* what st.cache_data.clear() leaves of the cache
cache_clear(c) == NoCache

\* st.cache_data.clear(); return True
ReturnSaved(s, writes) ==
    /\ cache' = cache_clear(cache)
    /\ Return(s, TRUE, FALSE, writes, "True", EmptyDF, NoView)

\* a slip: the except clause reports success
save_failed_as_true == "True"

\* what save_daily_record returns from its except clause and without a sheet
save_failed == "False"

ReturnSaveFailed(s, sheet) ==
    /\ Return(s, sheet, TRUE, loc[s].writes, save_failed, EmptyDF, NoView)
    /\ UNCHANGED cache

\* get_sheet returned None to the running operation
NoSheet(s) ==
    IF op[s].name = "save" THEN ReturnSaveFailed(s, FALSE)
    ELSE ReturnLoad(s, FALSE, TRUE, EmptyDF)

\* get_sheet returned the sheet to the running operation
SheetReturned(s) ==
    /\ pc' = [pc EXCEPT ![s] = IF op[s].name = "save" THEN "sv_find" ELSE "ld_all"]
    /\ UNCHANGED <<op, cache, history, last>>

\* ---------------------------------------------------------------- get_sheet
\* get_gspread_client() and client.open(...).sheet1 succeed
GsOpen(s) ==
    /\ pc[s] = "gs_open"
    /\ pc' = [pc EXCEPT ![s] = "gs_empty"]
    /\ UNCHANGED <<file_vars, rows, col_count, cache, clock, op, loc, failures,
                   before, earlier, overlapped, started, history, last>>

\* a slip: a sheet that holds only its header row counts as empty
sheet_is_empty_or_header(values) == Len(values) <= 1

\* not sheet.get_all_values()
sheet_is_empty(values) == values = <<>>

\* 1. if not sheet.get_all_values()
GsEmpty(s) ==
    /\ pc[s] = "gs_empty"
    /\ pc' = [pc EXCEPT ![s] =
          IF sheet_is_empty(get_all_values(rows)) THEN "gs_append" ELSE "gs_resize"]
    /\ UNCHANGED <<file_vars, rows, col_count, cache, clock, op, loc, failures,
                   before, earlier, overlapped, started, history, last>>

\* sheet.append_row(EXPECTED_HEADERS); return sheet
GsAppend(s) ==
    /\ pc[s] = "gs_append"
    /\ rows' = append_row(rows, EXPECTED_HEADERS)
    /\ col_count' = Max(col_count, Len(EXPECTED_HEADERS))
    /\ SheetReturned(s)
    /\ UNCHANGED <<file_vars, clock, loc, failures, before, earlier, overlapped, started>>

\* whether step 2 resizes the grid
needs_resize(current_col_count) == current_col_count < required_col_count

\* 2. if current_col_count < required_col_count: sheet.resize(cols=...)
GsResize(s) ==
    /\ pc[s] = "gs_resize"
    /\ col_count' = IF needs_resize(col_count) THEN required_col_count ELSE col_count
    /\ pc' = [pc EXCEPT ![s] = "gs_rowvals"]
    /\ UNCHANGED <<file_vars, rows, cache, clock, op, loc, failures,
                   before, earlier, overlapped, started, history, last>>

\* whether step 3 goes on to rewrite the header, by its length
header_short(current_headers) == Len(current_headers) < required_col_count

\* 3. current_headers = sheet.row_values(1); if len(current_headers) < ...
GsRowValues(s) ==
    /\ pc[s] = "gs_rowvals"
    /\ LET current_headers == row_values(rows, 1)
       IN  IF header_short(current_headers)
           THEN /\ loc' = [loc EXCEPT ![s].current_headers = current_headers]
                /\ pc' = [pc EXCEPT ![s] = "gs_cell"]
                /\ UNCHANGED <<op, cache, history, last>>
           ELSE /\ SheetReturned(s)
                /\ UNCHANGED loc
    /\ UNCHANGED <<file_vars, rows, col_count, clock, failures, before, earlier, overlapped, started>>

\* the "simple safety check" on the first header cell
date_cell_ok(date_cell) == date_cell = "Date"

\* date_cell = sheet.cell(1, 1).value; if date_cell == "Date"
GsCell(s) ==
    /\ pc[s] = "gs_cell"
    /\ IF date_cell_ok(cell(rows, 1, 1))
       THEN /\ loc' = [loc EXCEPT ![s].i = 0]
            /\ pc' = [pc EXCEPT ![s] = "gs_hdr"]
            /\ UNCHANGED <<op, cache, history, last>>
       ELSE /\ SheetReturned(s)
            /\ UNCHANGED loc
    /\ UNCHANGED <<file_vars, rows, col_count, clock, failures, before, earlier, overlapped, started>>

\* a slip: the loop writes the new column headers only
header_differs_new_only(current_headers, i) == i >= Len(current_headers)

\* a slip: the loop corrects the shared positions only
header_differs_shared_only(current_headers, i) ==
    i < Len(current_headers) /\ current_headers[i + 1] # EXPECTED_HEADERS[i + 1]

\* whether iteration i (0-based) of the header loop calls update_cell
header_differs(current_headers, i) ==
    IF i < Len(current_headers)
    THEN current_headers[i + 1] # EXPECTED_HEADERS[i + 1]
    ELSE TRUE

\* the iterations from i on that call update_cell
to_write(current_headers, i) ==
    {k \in i..(Len(EXPECTED_HEADERS) - 1) : header_differs(current_headers, k)}

\* for i, header in enumerate(EXPECTED_HEADERS): the loop up to and with its
\* next update_cell(1, i+1, header), or to its end and return sheet
GsHeader(s) ==
    /\ pc[s] = "gs_hdr"
    /\ LET todo == to_write(loc[s].current_headers, loc[s].i)
       IN  IF todo = {}
           THEN /\ SheetReturned(s)
                /\ loc' = [loc EXCEPT ![s] = Loc0]
                /\ UNCHANGED rows
           ELSE LET k == CHOOSE k \in todo : \A j \in todo : k <= j
                IN  /\ k + 1 <= col_count
                    /\ rows' = update_cell(rows, 1, k + 1, EXPECTED_HEADERS[k + 1])
                    /\ loc' = [loc EXCEPT ![s].i = k + 1]
                    /\ UNCHANGED <<pc, op, cache, history, last>>
    /\ UNCHANGED <<file_vars, col_count, clock, failures, before, earlier, overlapped, started>>

\* get_sheet run alone on a worksheet: the cells it leaves
RECURSIVE write_headers(_, _, _)
write_headers(rs, current_headers, i) ==
    IF i >= Len(EXPECTED_HEADERS) THEN rs
    ELSE write_headers(
            IF header_differs(current_headers, i)
            THEN update_cell(rs, 1, i + 1, EXPECTED_HEADERS[i + 1]) ELSE rs,
            current_headers, i + 1)

get_sheet(rs) ==
    IF sheet_is_empty(get_all_values(rs)) THEN append_row(rs, EXPECTED_HEADERS)
    ELSE IF header_short(row_values(rs, 1)) /\ date_cell_ok(cell(rs, 1, 1))
    THEN write_headers(rs, row_values(rs, 1), 0)
    ELSE rs

\* -------------------------------------------------------- save_daily_record
\* a number written to a cell reads back as its text
cell_text(n) == ToString(n)

\* the value save_daily_record writes to column col (2..7)
value_of(rec, timestamp, col) ==
    CASE col = 2 -> json_dumps(rec.blocks)
      [] col = 3 -> rec.new_ideas
      [] col = 4 -> rec.funny_ep
      [] col = 5 -> rec.next_action
      [] col = 6 -> cell_text(total_blocks(rec.blocks))
      [] col = 7 -> timestamp

\* the row of the append branch
row_of(date, rec, timestamp) ==
    <<str(date)>> \o [c \in 1..6 |-> value_of(rec, timestamp, c + 1)]

\* a slip: the last match instead of the first
target_row_last(cells) == cells[Len(cells)]

\* row_idx = cells[0].row
target_row(cells) == cells[1]

\* the try block up to cells = sheet.findall(str(date), in_column=1); if cells
SvFind(s) ==
    /\ pc[s] = "sv_find"
    /\ LET cells == findall(rows, str(op[s].date))
       IN  IF cells # <<>>
           THEN /\ loc' = [loc EXCEPT ![s].row_idx = target_row(cells),
                                      ![s].col = 2,
                                      ![s].timestamp = strftime(clock)]
                /\ pc' = [pc EXCEPT ![s] = "sv_upd"]
           ELSE /\ loc' = [loc EXCEPT ![s].timestamp = strftime(clock)]
                /\ pc' = [pc EXCEPT ![s] = "sv_append"]
    /\ clock' = clock + 1
    /\ UNCHANGED <<file_vars, rows, col_count, cache, op, failures,
                   before, earlier, overlapped, started, history, last>>

\* the last column the update branch writes
last_col == Len(EXPECTED_HEADERS)

\* sheet.update_cell(row_idx, col, ...) for col = 2..7, then return True
SvUpdate(s) ==
    /\ pc[s] = "sv_upd"
    /\ loc[s].col <= col_count
    /\ rows' = update_cell(rows, loc[s].row_idx, loc[s].col,
                           value_of(op[s].rec, loc[s].timestamp, loc[s].col))
    /\ IF loc[s].col = last_col
       THEN ReturnSaved(s, loc[s].writes + 1)
       ELSE /\ loc' = [loc EXCEPT ![s].col = @ + 1, ![s].writes = @ + 1]
            /\ UNCHANGED <<pc, op, cache, history, last>>
    /\ UNCHANGED <<file_vars, col_count, clock, failures, before, earlier, overlapped, started>>

\* sheet.append_row([...]), then return True
SvAppend(s) ==
    /\ pc[s] = "sv_append"
    /\ rows' = append_row(rows, row_of(op[s].date, op[s].rec, loc[s].timestamp))
    /\ ReturnSaved(s, 1)
    /\ UNCHANGED <<file_vars, col_count, clock, failures, before, earlier, overlapped, started>>

\* ------------------------------------------------------------ load_all_data
\* rows = sheet.get_all_values(); return pd.DataFrame(rows[1:], columns=headers)
LdAll(s) ==
    /\ pc[s] = "ld_all"
    /\ ReturnLoad(s, TRUE, FALSE, frame_of(rows))
    /\ UNCHANGED <<file_vars, rows, col_count, clock, failures, before, earlier, overlapped, started>>

\* ------------------------------------------------------------------ failures
\* the call session s is about to make raises (no client, network, quota):
\* get_sheet returns None, load_all_data returns an empty frame and
\* save_daily_record goes to its except clause
Fail(s) ==
    /\ pc[s] # "idle"
    /\ failures < MaxFailures
    /\ started + failures < MaxEvents
    /\ failures' = failures + 1
    /\ pc[s] = "gs_resize" => needs_resize(col_count)
    /\ CASE pc[s] \in {"gs_open", "gs_empty", "gs_append", "gs_resize",
                       "gs_rowvals", "gs_cell", "gs_hdr"} -> NoSheet(s)
         [] pc[s] \in {"sv_find", "sv_upd", "sv_append"} -> ReturnSaveFailed(s, TRUE)
         [] pc[s] = "ld_all" -> ReturnLoad(s, TRUE, TRUE, EmptyDF)
    /\ UNCHANGED <<file_vars, rows, col_count, clock, before, earlier, overlapped, started>>

\* ---------------------------------------------------------------- the callers
\* A script run begins an operation.  The sessions are alike, so session 1
\* runs the operations and session 2 one that begins while session 1 is busy.
Begin(s) ==
    /\ pc[s] = "idle"
    /\ s = 1 \/ pc[1] # "idle"
    /\ started < (IF overlapped \/ s # 1 THEN RaceOps ELSE MaxOps)
    /\ started + failures < MaxEvents
    /\ started' = started + 1
    /\ before' = IF AllIdle THEN rows ELSE before
    /\ earlier' = IF AllIdle THEN before ELSE earlier
    /\ overlapped' = (overlapped \/ ~AllIdle)

\* the save button: save_daily_record(date, blocks, new_ideas, funny_ep, next_action)
StartSave(s, date, rec) ==
    /\ Begin(s)
    /\ pc' = [pc EXCEPT ![s] = "gs_open"]
    /\ op' = [op EXCEPT ![s] = [name |-> "save", date |-> date, rec |-> rec]]
    /\ UNCHANGED <<file_vars, rows, col_count, cache, clock, loc, failures, history, last>>

\* the date input changes to date: load_all_data misses the cache, which is
\* empty or holds an entry older than its ttl=60
StartLoad(s, date) ==
    /\ Begin(s)
    /\ cache' = NoCache
    /\ pc' = [pc EXCEPT ![s] = "gs_open"]
    /\ op' = [op EXCEPT ![s] = [name |-> "load", date |-> date, rec |-> R0]]
    /\ UNCHANGED <<file_vars, rows, col_count, clock, loc, failures, history, last>>

\* the date input changes to date: load_all_data is served from the cache
LoadCached(s, date) ==
    /\ cache.hit
    /\ Begin(s)
    /\ LET view == script_run(cache.df, date)
       IN  /\ history' = Remember(
                 [name |-> "load", date |-> date, rec |-> R0, sheet |-> FALSE,
                  result |-> view.status])
           /\ last' = [NoLast EXCEPT !.df = cache.df, !.row = view.row,
                                     !.form = view.form,
                                     !.stopped = view.stopped,
                                     !.stats = view.stats]
    /\ UNCHANGED <<file_vars, rows, col_count, cache, clock, pc, op, loc, failures>>

\* ---------------------------------------- the flat-file variant (src/app.py)
COLUMNS == <<"Date", "Item 1", "Item 2", "Item 3", "Item 4", "Timestamp">>

\* a missing value in a frame (nan), which is no text of a cell
NaN == "<nan>"

\* of the texts that occur here, those pd.read_csv reads as missing values
\* (its default na_values)
NaValues == {"", "N/A"}

\* diary.csv is not there
NoFile == [exists |-> FALSE, lines |-> <<>>]

\* pd.read_csv(DATA_FILE) raises: a file without a line (EmptyDataError), or a
\* line with more fields than the header line (ParserError)
read_csv_raises(lines) ==
    \/ lines = <<>>
    \/ \E k \in 2..Len(lines) : Len(lines[k]) > Len(lines[1])

\* pd.read_csv(DATA_FILE): the first line names the columns; a field that is
\* not there or is one of the na_values reads as nan
read_csv(lines) ==
    DataFrame(
        [k \in 1..(Len(lines) - 1) |->
            [c \in 1..Len(lines[1]) |->
                IF c > Len(lines[k + 1]) \/ lines[k + 1][c] \in NaValues
                THEN NaN ELSE lines[k + 1][c]]],
        lines[1])

\* pd.DataFrame(columns=["Date", "Item 1", ..., "Timestamp"])
empty_table == DataFrame(<<>>, COLUMNS)

\* load_data()
load_data(file) ==
    IF ~file.exists THEN empty_table
    ELSE IF read_csv_raises(file.lines) THEN empty_table
    ELSE read_csv(file.lines)

\* new_entry = pd.DataFrame([{"Date": str(date), ..., "Timestamp": timestamp}])
new_entry(date, item1, item2, item3, item4, timestamp) ==
    DataFrame(<< <<str(date), item1, item2, item3, item4, timestamp>> >>, COLUMNS)

\* pd.concat([df, e], ignore_index=True): the columns of df, then those only
\* e has; a row has nan in the columns its frame has not
concat(df, e) ==
    LET cols == df.columns \o SelectSeq(e.columns, LAMBDA c : ~HasCol(df, c))
        conv(f, row) ==
            [c \in 1..Len(cols) |->
                IF HasCol(f, cols[c]) THEN row[ColIdx(f, cols[c])] ELSE NaN]
    IN  DataFrame(
            [k \in 1..Len(df.data) |-> conv(df, df.data[k])]
              \o [k \in 1..Len(e.data) |-> conv(e, e.data[k])],
            cols)

\* df.to_csv(DATA_FILE, index=False): the line of the column names and one
\* line for each row, nan written as the empty text
to_csv(df) ==
    <<df.columns>> \o
    [k \in 1..Len(df.data) |->
        [c \in 1..Len(df.columns) |->
            IF df.data[k][c] = NaN THEN "" ELSE df.data[k][c]]]

\* what the user types into the first two text areas of the form
Items1 == {"a", "N/A"}
Items2 == {"", "b"}

NoCall == [returned |-> FALSE, before |-> NoFile, entry |-> <<>>, fallback |-> FALSE]

\* the form is submitted: save_data(date, item1, item2, "", "")
SaveData(date, item1, item2) ==
    /\ started < MaxOps
    /\ started' = started + 1
    /\ clock' = clock + 1
    /\ LET df == load_data(data_file)
           timestamp == strftime(clock)
           entry == new_entry(date, item1, item2, "", "", timestamp)
       IN  /\ data_file' = [exists |-> TRUE, lines |-> to_csv(concat(df, entry))]
           /\ file_call' = [returned |-> TRUE, before |-> data_file,
                            entry |-> entry.data[1],
                            fallback |-> data_file.exists
                                         /\ read_csv_raises(data_file.lines)]
    /\ UNCHANGED sheet_vars

\* a line of diary.csv as save_data writes it
FileLine(date, item1, item2, timestamp) ==
    <<str(date), item1, item2, "", "", timestamp>>

\* diary.csv as the program finds it
Files ==
    { \* no file yet
      NoFile,
      \* a file of no bytes
      [exists |-> TRUE, lines |-> <<>>],
      \* a file this program wrote
      [exists |-> TRUE, lines |-> <<COLUMNS, FileLine(D1, "a", "b", "T0")>>],
      \* a file the user edited: a comma too many in the last line
      [exists |-> TRUE,
       lines |-> <<COLUMNS, FileLine(D1, "a", "b", "T0"),
                   FileLine(D3, "a", "", "T0") \o <<"">> >>] }

\* ------------------------------------------------------------ initial sheets
OldRow(date, rec, n) == SubSeq(row_of(date, rec, "T0"), 1, n)

\* worksheets as this program's generations leave them: [rows, col_count]
WrittenSheets ==
    { \* a new spreadsheet (client.create): nothing in it
      [rows |-> <<>>, col_count |-> DefaultCols],
      \* the current header; duplicates of a date, left by an append-only
      \* generation
      [rows |-> <<EXPECTED_HEADERS, row_of(D3, R0, "T0"), row_of(D1, R1, "T0"),
                  row_of(D3, R1, "T0")>>, col_count |-> DefaultCols],
      \* a generation with three columns, in a grid of three columns
      [rows |-> <<SubSeq(EXPECTED_HEADERS, 1, 3), OldRow(D1, R2, 3)>>,
       col_count |-> OldCols] }

\* worksheets whose header row somebody edited by hand
EditedSheets ==
    { \* a new spreadsheet
      [rows |-> <<>>, col_count |-> DefaultCols],
      \* a short header with another name in a shared position, over a cell
      \* that is no JSON
      [rows |-> <<(<<"Date", "Blocks", "NewIdeas">>), (<<str(D1), NotJson, "i1">>)>>,
       col_count |-> DefaultCols],
      \* a short header whose first cell is not "Date"
      [rows |-> <<(<<"Day", "BlocksJSON", "NewIdeas">>), OldRow(D1, R1, 3)>>,
       col_count |-> DefaultCols],
      \* a header of full length with another name in a shared position; the
      \* date has two rows, the first with a BlocksJSON cell typed in by hand
      [rows |-> <<[EXPECTED_HEADERS EXCEPT ![3] = "Ideas"],
                  [row_of(D1, R0, "T0") EXCEPT ![2] = json_dumps(<<Bx>>)],
                  row_of(D1, R1, "T0")>>,
       col_count |-> DefaultCols] }

InitFrom(sheets) ==
    /\ \E sh \in sheets :
          /\ rows = sh.rows
          /\ col_count = sh.col_count
          /\ before = sh.rows
          /\ earlier = sh.rows
    /\ cache = NoCache
    /\ clock = 1
    /\ pc = [s \in Sessions |-> "idle"]
    /\ op = [s \in Sessions |-> Idle]
    /\ loc = [s \in Sessions |-> Loc0]
    /\ failures = 0
    /\ overlapped = FALSE
    /\ started = 0
    /\ history = <<>>
    /\ last = NoLast
    /\ data_file = NoFile
    /\ file_call = NoCall

Init == InitFrom(WrittenSheets)

InitEdited == InitFrom(EditedSheets)

Next ==
    \/ \E s \in Sessions, date \in Dates, rec \in Records : StartSave(s, date, rec)
    \/ \E s \in Sessions, date \in Dates : StartLoad(s, date)
    \/ \E s \in Sessions, date \in Dates : LoadCached(s, date)
    \/ \E s \in Sessions : GsOpen(s)
    \/ \E s \in Sessions : GsEmpty(s)
    \/ \E s \in Sessions : GsAppend(s)
    \/ \E s \in Sessions : GsResize(s)
    \/ \E s \in Sessions : GsRowValues(s)
    \/ \E s \in Sessions : GsCell(s)
    \/ \E s \in Sessions : GsHeader(s)
    \/ \E s \in Sessions : SvFind(s)
    \/ \E s \in Sessions : SvUpdate(s)
    \/ \E s \in Sessions : SvAppend(s)
    \/ \E s \in Sessions : LdAll(s)
    \/ \E s \in Sessions : Fail(s)

\* two sessions against worksheets the program wrote
Spec == Init /\ [][Next]_vars

\* the same against worksheets whose header row was edited by hand
SpecEdited == InitEdited /\ [][Next]_vars

\* the flat-file variant: no worksheet, one user
InitFile ==
    /\ rows = <<>> /\ col_count = DefaultCols
    /\ before = <<>> /\ earlier = <<>>
    /\ cache = NoCache
    /\ clock = 1
    /\ pc = [s \in Sessions |-> "idle"]
    /\ op = [s \in Sessions |-> Idle]
    /\ loc = [s \in Sessions |-> Loc0]
    /\ failures = 0
    /\ overlapped = FALSE
    /\ started = 0
    /\ history = <<>>
    /\ last = NoLast
    /\ data_file \in Files
    /\ file_call = NoCall

NextFile ==
    \E date \in Dates, item1 \in Items1, item2 \in Items2 : SaveData(date, item1, item2)

SpecFile == InitFile /\ [][NextFile]_vars

\* ------------------------------------------------------------------- claims
\* the k-th last operation that returned (0 is the last)
H(k) == history[Len(history) - k]

Returned(n) == Len(history) >= n

OkSave(e) == e.name = "save" /\ e.result = "True"

\* a load that read the store or the cache without a call raising
OkLoad(e) == e.name = "load" /\ e.result = "ok" /\ ~last.raised

CellAt(row, c) == IF c <= Len(row) THEN row[c] ELSE ""

\* the sum of the counts, from the last block to the first
RECURSIVE CountsFrom(_, _)
CountsFrom(blocks, n) ==
    IF n = 0 THEN 0 ELSE blocks[n].count + CountsFrom(blocks, n - 1)

\* columns 2 to 6 of the row are those of the record
RowHolds(row, rec) ==
    /\ CellAt(row, 2) = json_dumps(rec.blocks)
    /\ CellAt(row, 3) = rec.new_ideas
    /\ CellAt(row, 4) = rec.funny_ep
    /\ CellAt(row, 5) = rec.next_action
    /\ CellAt(row, 6) = ToString(CountsFrom(rec.blocks, Len(rec.blocks)))

RowsOf(rs, date_str) == {r \in 1..Len(rs) : CellAt(rs[r], 1) = date_str}

NoDuplicateDates(rs) ==
    \A r1, r2 \in 1..Len(rs) : CellAt(rs[r1], 1) = CellAt(rs[r2], 1) => r1 = r2

\* C1: two successful saves of the same date and record, one after the
\* other, on a store without duplicate dates leave exactly one row of that
\* date, and it holds the record; and a successful save on a store without
\* duplicate dates leaves no duplicate dates, so that no sequence of such
\* saves from the empty store makes two rows share a date.
C1_SaveTwiceOneRow ==
    (AllIdle /\ ~overlapped /\ Returned(1) /\ OkSave(H(0))) =>
        /\ NoDuplicateDates(before) => NoDuplicateDates(rows)
        /\ (Returned(2) /\ OkSave(H(1)) /\ H(1).date = H(0).date
              /\ H(1).rec = H(0).rec /\ NoDuplicateDates(earlier)) =>
              /\ Cardinality(RowsOf(rows, str(H(0).date))) = 1
              /\ \A r \in RowsOf(rows, str(H(0).date)) : RowHolds(rows[r], H(0).rec)

C1_Witness ==
    /\ AllIdle /\ ~overlapped /\ Returned(2)
    /\ OkSave(H(0)) /\ OkSave(H(1))
    /\ H(1).date = H(0).date /\ H(1).rec = H(0).rec
    /\ NoDuplicateDates(earlier)
    /\ RowsOf(earlier, str(H(0).date)) = {}
    /\ Len(rows) > 2

\* C2: a load of date d that follows a successful save of d and a record,
\* one after the other, reads back that record in every field, whatever an
\* earlier save of d wrote and whatever the cache held before the save.
C2_ReadBackLastSave ==
    (AllIdle /\ ~overlapped /\ Returned(2) /\ OkLoad(H(0)) /\ OkSave(H(1))
       /\ H(1).date = H(0).date) =>
        /\ last.row # <<>>
        /\ CellAt(last.row, 1) = str(H(0).date)
        /\ RowHolds(last.row, H(1).rec)
        /\ last.form = [temp_blocks |-> H(1).rec.blocks,
                        form_ideas  |-> H(1).rec.new_ideas,
                        form_funny  |-> H(1).rec.funny_ep,
                        form_next   |-> H(1).rec.next_action]

C2_Witness ==
    /\ AllIdle /\ ~overlapped /\ Returned(3)
    /\ OkLoad(H(0)) /\ OkSave(H(1)) /\ OkSave(H(2))
    /\ H(1).date = H(0).date /\ H(2).date = H(0).date
    /\ H(2).rec = R0 /\ H(1).rec = R1
    /\ RowHolds(last.row, R1)

\* the row a save that returned True wrote: its match, or the appended row
WrittenRow == IF last.row_idx # 0 THEN last.row_idx ELSE Len(rows)

\* C3: the TotalBlocks cell a successful save writes, in the update branch
\* and in the append branch, is the sum of the counts of the blocks it was
\* given, 0 for no blocks.
C3_TotalIsSumOfCounts ==
    (AllIdle /\ ~overlapped /\ Returned(1) /\ OkSave(H(0))) =>
        /\ CellAt(rows[WrittenRow], 1) = str(H(0).date)
        /\ CellAt(rows[WrittenRow], 6) =
              ToString(CountsFrom(H(0).rec.blocks, Len(H(0).rec.blocks)))
        /\ H(0).rec.blocks = <<>> => CellAt(rows[WrittenRow], 6) = "0"

C3_Witness ==
    /\ AllIdle /\ ~overlapped /\ Returned(2)
    /\ OkSave(H(0)) /\ OkSave(H(1))
    /\ H(1).rec.blocks = <<>> /\ H(0).rec.blocks = <<B1, B2>>
    /\ last.row_idx # 0
    /\ CellAt(rows[WrittenRow], 6) = "3"

\* the TotalBlocks cell of a row that has one agrees with its BlocksJSON cell
Consistent(row) ==
    (Len(row) >= 6 /\ JsonValid(row[2])) =>
        row[6] = ToString(CountsFrom(json_loads(row[2]), Len(json_loads(row[2]))))

\* C4: whenever no save is in progress, also after a save that failed part-way
\* through its cell updates, every data row's TotalBlocks is the sum of the
\* counts in its BlocksJSON.
C4_TotalConsistentAtRest ==
    (AllIdle /\ ~overlapped) => \A r \in 2..Len(rows) : Consistent(rows[r])

StrictPrefix(h) ==
    /\ Len(h) < Len(EXPECTED_HEADERS)
    /\ \A i \in 1..Len(h) : h[i] = EXPECTED_HEADERS[i]

\* get_sheet has just returned the sheet to session s
GotSheet(s) == pc[s] \in {"sv_find", "ld_all"}

\* C5: when the stored header is a strict prefix of EXPECTED_HEADERS, get_sheet
\* returns with the header equal to EXPECTED_HEADERS and every data row as it
\* was, and load_all_data reads the old rows back under the full header with
\* empty values in the new columns, without raising.
C5_PrefixHeaderMigrated ==
    /\ \A s \in Sessions :
          (GotSheet(s) /\ ~overlapped /\ StrictPrefix(row_values(before, 1))) =>
              /\ rows[1] = EXPECTED_HEADERS
              /\ Len(rows) = Max(Len(before), 1)
              /\ \A r \in 2..Len(before) : rows[r] = before[r]
    /\ (AllIdle /\ ~overlapped /\ Returned(1) /\ OkLoad(H(0)) /\ H(0).sheet
          /\ StrictPrefix(row_values(before, 1))) =>
              /\ last.df.columns = EXPECTED_HEADERS
              /\ Len(last.df.data) = Max(Len(before), 1) - 1
              /\ \A k \in 1..Len(last.df.data) :
                    last.df.data[k] = PadTo(before[k + 1], Len(EXPECTED_HEADERS))

C5_Witness ==
    /\ AllIdle /\ ~overlapped /\ Returned(1) /\ OkLoad(H(0)) /\ H(0).sheet
    /\ row_values(before, 1) = SubSeq(EXPECTED_HEADERS, 1, 3)
    /\ Len(last.df.data) >= 1
    /\ last.df.data[1][7] = ""

Min(a, b) == IF a < b THEN a ELSE b

\* C6 as stated: on a non-empty store get_sheet returns with the stored
\* header agreeing with EXPECTED_HEADERS at every position both have, whatever
\* the stored header's length and first cell.
C6_SharedPositionsAgree ==
    \A s \in Sessions :
        (GotSheet(s) /\ ~overlapped /\ before # <<>>) =>
            \A i \in 1..Min(Len(row_values(before, 1)), Len(EXPECTED_HEADERS)) :
                CellAt(rows[1], i) = EXPECTED_HEADERS[i]

\* C6 as amended: on a non-empty store whose header is shorter than
\* EXPECTED_HEADERS and begins with "Date", get_sheet returns with the header
\* equal to EXPECTED_HEADERS, differing names overwritten; on a header of full
\* length or with another first cell it returns with the header as it was.
C6_ShortDateHeaderRewritten ==
    \A s \in Sessions :
        (GotSheet(s) /\ ~overlapped /\ before # <<>>) =>
            LET h == row_values(before, 1)
            IN  IF Len(h) < Len(EXPECTED_HEADERS) /\ CellAt(h, 1) = "Date"
                THEN rows[1] = EXPECTED_HEADERS
                ELSE rows[1] = h

C6_Witness ==
    /\ GotSheet(1) /\ ~overlapped
    /\ row_values(before, 1) = <<"Date", "Blocks", "NewIdeas">>
    /\ rows[1] = EXPECTED_HEADERS

\* the last two operations were loads whose get_sheet returned the sheet
TwoLoads ==
    /\ AllIdle /\ Returned(2)
    /\ H(0).name = "load" /\ H(0).sheet
    /\ H(1).name = "load" /\ H(1).sheet

\* the cells before the first of the last two operations
Origin == IF overlapped THEN before ELSE earlier

\* C7 as stated: two runs of get_sheet, one after the other or interleaved,
\* from any store, empty or not, end in the store one run leaves.
C7_TwiceAsOnce == TwoLoads => rows = get_sheet(Origin)

\* C7 as amended: two runs one after the other end in the store one run
\* leaves, the second changing nothing; two interleaved runs do so from a
\* store that is not empty; from an empty store interleaved runs leave
\* EXPECTED_HEADERS in row 1 and at most one more copy of it in row 2.
C7_TwiceAsOnceUnlessEmptyRace ==
    TwoLoads =>
        /\ (~overlapped \/ before # <<>>) => rows = get_sheet(Origin)
        /\ ~overlapped => rows = before
        /\ (overlapped /\ before = <<>>) =>
              rows \in {<<EXPECTED_HEADERS>>, <<EXPECTED_HEADERS, EXPECTED_HEADERS>>}

C7_Witness ==
    /\ TwoLoads /\ overlapped
    /\ before # <<>>
    /\ row_values(before, 1) # EXPECTED_HEADERS
    /\ rows[1] = EXPECTED_HEADERS

FirstOf(rs, date_str) ==
    CHOOSE r \in RowsOf(rs, date_str) : \A q \in RowsOf(rs, date_str) : r <= q

\* C8: when two or more rows hold the date, a successful save writes the
\* record into the first of them only, every other row stays as it was and
\* where it was, and a load of the date then reads back that first row.
C8_FirstDuplicateUpdated ==
    /\ (AllIdle /\ ~overlapped /\ Returned(1) /\ OkSave(H(0))
          /\ Cardinality(RowsOf(before, str(H(0).date))) >= 2) =>
          LET first == FirstOf(before, str(H(0).date))
          IN  /\ RowHolds(rows[first], H(0).rec)
              /\ CellAt(rows[first], 1) = str(H(0).date)
              /\ Len(rows) = Len(before)
              /\ \A r \in 1..Len(before) : r # first => rows[r] = before[r]
    /\ (AllIdle /\ ~overlapped /\ Returned(2) /\ OkLoad(H(0)) /\ OkSave(H(1))
          /\ H(1).date = H(0).date
          /\ Cardinality(RowsOf(earlier, str(H(0).date))) >= 2) =>
          LET first == FirstOf(earlier, str(H(0).date))
          IN  /\ last.row = get_all_values(rows)[first]
              /\ RowHolds(last.row, H(1).rec)

C8_Witness ==
    /\ AllIdle /\ ~overlapped /\ Returned(2) /\ OkLoad(H(0)) /\ OkSave(H(1))
    /\ H(1).date = H(0).date /\ H(1).rec = R1
    /\ Cardinality(RowsOf(earlier, str(H(0).date))) >= 2
    /\ RowHolds(last.row, R1)
    /\ \E r \in RowsOf(rows, str(H(0).date)) : RowHolds(rows[r], R0) \/ r = Len(rows)

\* C9: save_daily_record returns True or False and never raises; it returns
\* True only when get_sheet gave the sheet and the search and all six
\* update_cell calls, or the append_row, completed; without a sheet or after
\* a call that raised it returns False.
C9_TrueOnlyAfterAllWrites ==
    (Returned(1) /\ H(0).name = "save") =>
        /\ H(0).result \in {"True", "False"}
        /\ H(0).result = "True" =>
              /\ last.sheet /\ ~last.raised
              /\ last.writes = (IF last.row_idx # 0 THEN 6 ELSE 1)
        /\ (~last.sheet \/ last.raised) => H(0).result = "False"

C9_Witness ==
    /\ Returned(1) /\ H(0).name = "save" /\ H(0).result = "False"
    /\ last.sheet /\ last.raised
    /\ last.writes \in 1..5

\* C10: every read failure, a malformed stored header included, shows as an
\* empty result: load_all_data returns an empty frame and the auto-load of
\* the record tab does not raise.
C10_ReadFailureIsEmpty ==
    (Returned(1) /\ H(0).name = "load") =>
        /\ H(0).result = "ok"
        /\ ~HasCol(last.df, "Date") => empty(last.df)

\* the cell is the encoding of a list of blocks
BlocksText(text) == \E bl \in BlockLists : ToString(bl) = text

\* the rows of the frame whose BlocksJSON cell is no such encoding
BadRows(df) ==
    {k \in 1..Len(df.data) : ~BlocksText(row_get(df, df.data[k], "BlocksJSON"))}

RECURSIVE Keep(_, _, _)
\* the rows from k on that are not in ks
Keep(data, ks, k) ==
    IF k > Len(data) THEN <<>>
    ELSE (IF k \in ks THEN <<>> ELSE <<data[k]>>) \o Keep(data, ks, k + 1)

\* the blocks the list tab drew for each row of the frame the last run read
Listed == list_tab(last.df).blocks

\* all_blocks of the stats tab of the last run
AllBlocks == all_blocks(last.df)

\* C11: for every row whose BlocksJSON cell is not the encoding of a list of
\* blocks (no JSON, or JSON of another shape), the script run that reads the
\* frame does not raise, the auto-load of that row sets no blocks, the list
\* tab draws no blocks for it and the blocks of every other row as stored,
\* and the stats tab's all_blocks is what it is without the bad rows.
C11_BadBlocksReadAsNone ==
    (Returned(1) /\ H(0).name = "load" /\ H(0).result = "ok") =>
        LET df == last.df
            bad == BadRows(df)
        IN  /\ last.stopped = ""
            /\ (last.row # <<>> /\ ~BlocksText(row_get(df, last.row, "BlocksJSON"))) =>
                  last.form.temp_blocks = <<>>
            /\ \A k \in 1..Len(df.data) :
                  IF k \in bad THEN Listed[k] = <<>>
                  ELSE ToString(Listed[k]) = row_get(df, df.data[k], "BlocksJSON")
            /\ AllBlocks = all_blocks([df EXCEPT !.data = Keep(df.data, bad, 1)])

\* the list of blocks a BlocksJSON cell encodes
Decoded(text) == CHOOSE bl \in BlockLists : ToString(bl) = text

RECURSIVE BlocksAbove(_, _)
\* the number of blocks in the data rows above row r
BlocksAbove(rs, r) ==
    IF r <= 2 THEN 0
    ELSE Len(Decoded(CellAt(rs[r - 1], 2))) + BlocksAbove(rs, r - 1)

\* C12: all_blocks of the stats tab has one entry for each block of each
\* stored row and no other, each with the Date of its row, in the order of the
\* rows and then of the blocks in the row; its length is the number of blocks
\* of all rows, and a store of one row with one block gives one entry.
C12_AllBlocksOnePerBlock ==
    (AllIdle /\ ~overlapped /\ Returned(1) /\ OkLoad(H(0)) /\ H(0).sheet) =>
        /\ last.stopped = ""
        /\ last.stats = (AllBlocks # <<>>)
        /\ Len(AllBlocks) = BlocksAbove(rows, Len(rows) + 1)
        /\ \A r \in 2..Len(rows) :
              LET bs == Decoded(CellAt(rows[r], 2))
              IN  \A n \in 1..Len(bs) :
                    LET e == AllBlocks[BlocksAbove(rows, r) + n]
                    IN  /\ e.Date = CellAt(rows[r], 1)
                        /\ e.category = bs[n].category
                        /\ e.title = bs[n].title
                        /\ e.count = bs[n].count
        /\ (Len(rows) = 2 /\ Len(Decoded(CellAt(rows[2], 2))) = 1) =>
              Len(AllBlocks) = 1

C12_Witness ==
    /\ AllIdle /\ ~overlapped /\ Returned(1) /\ OkLoad(H(0)) /\ H(0).sheet
    /\ Len(rows) = 4
    /\ last.stats
    /\ Len(AllBlocks) = 4
    /\ AllBlocks[2].Date = str(D1) /\ AllBlocks[2].title = "read"
    /\ AllBlocks[3].Date = str(D3) /\ AllBlocks[3].title = "game"

\* the store of one row with one block, read by the stats tab
C12_OneRowOneBlock ==
    /\ AllIdle /\ ~overlapped /\ Returned(1) /\ OkLoad(H(0)) /\ H(0).sheet
    /\ Len(rows) = 2
    /\ last.stats
    /\ Len(AllBlocks) = 1
    /\ AllBlocks[1].Date = str(D1) /\ AllBlocks[1].count = 2

\* C13 as stated: a successful save leaves, in the update branch, column 1 of
\* the matched row, the header row, every other row and the number of rows as
\* they were before the call, and in the append branch every row as it was
\* before the call and one row more.
C13_SaveChangesTargetOnly ==
    (AllIdle /\ ~overlapped /\ Returned(1) /\ OkSave(H(0))) =>
        IF last.row_idx # 0
        THEN /\ Len(rows) = Len(before)
             /\ CellAt(rows[last.row_idx], 1) = CellAt(before[last.row_idx], 1)
             /\ \A r \in 1..Len(before) : r # last.row_idx => rows[r] = before[r]
        ELSE /\ Len(rows) = Len(before) + 1
             /\ \A r \in 1..Len(before) : rows[r] = before[r]

\* C13 as amended: the same, measured from the store as the get_sheet of the
\* call leaves it: the header row of an empty store appended, a short header
\* completed, everything else as before the call.
C13_SaveChangesTargetOnlyAfterHeader ==
    (AllIdle /\ ~overlapped /\ Returned(1) /\ OkSave(H(0))) =>
        LET base == get_sheet(before)
        IN  IF last.row_idx # 0
            THEN /\ Len(rows) = Len(base)
                 /\ CellAt(rows[last.row_idx], 1) = CellAt(before[last.row_idx], 1)
                 /\ \A r \in 1..Len(base) : r # last.row_idx => rows[r] = base[r]
            ELSE /\ Len(rows) = Len(base) + 1
                 /\ \A r \in 1..Len(base) : rows[r] = base[r]

C13_Witness ==
    /\ AllIdle /\ ~overlapped /\ Returned(1) /\ OkSave(H(0))
    /\ last.row_idx = 2
    /\ Len(before) = 2
    /\ rows[1] # before[1]
    /\ rows[2] # before[2]
    /\ RowHolds(rows[2], H(0).rec)

\* two saves of one date ran at the same time and both returned True
RacedSaves ==
    /\ AllIdle /\ overlapped /\ Returned(2)
    /\ OkSave(H(0)) /\ OkSave(H(1))
    /\ H(0).date = H(1).date

\* columns 2 to 7 of the row are those of the k-th last save
FromSave(row, k) ==
    /\ RowHolds(row, H(k).rec)
    /\ (k = 0) <=> (CellAt(row, 7) = last.timestamp)

\* C14: after two overlapping saves of one date d on a store without
\* duplicate dates, both returned, the store holds exactly one row of d and
\* its columns 2 to 7 all come from one of the two saves: an update may be
\* lost, cells of the two records are never mixed and d never has two rows.
C14_RaceLosesOneUpdateAtMost ==
    (RacedSaves /\ NoDuplicateDates(before)) =>
        /\ Cardinality(RowsOf(rows, str(H(0).date))) = 1
        /\ \A r \in RowsOf(rows, str(H(0).date)) :
              \E k \in {0, 1} : FromSave(rows[r], k)

\* what the race leaves on a store without a row of d: two rows of d
C14_TwoRows ==
    /\ RacedSaves /\ NoDuplicateDates(before)
    /\ RowsOf(before, str(H(0).date)) = {}
    /\ Cardinality(RowsOf(rows, str(H(0).date))) = 2

\* what the race leaves on a store with a row of d: cells of both saves
C14_MixedRow ==
    /\ RacedSaves /\ NoDuplicateDates(before)
    /\ Cardinality(RowsOf(before, str(H(0).date))) = 1
    /\ \E r \in RowsOf(rows, str(H(0).date)) :
          /\ CellAt(rows[r], 2) = json_dumps(H(1).rec.blocks)
          /\ CellAt(rows[r], 3) = H(0).rec.new_ideas
          /\ H(0).rec # H(1).rec

\* the lines of the file below the line of the column names
DataLines(file) == IF file.lines = <<>> THEN <<>> ELSE Tail(file.lines)

\* C15: after every save_data call that returned, diary.csv holds the lines
\* it held before the call, unchanged and in the same order, and after them
\* exactly one new line, that of the saved entry; also when load_data could
\* not read the file and went on with an empty table.
C15_SaveDataAppendsOnly ==
    file_call.returned =>
        LET old == DataLines(file_call.before)
            now == DataLines(data_file)
        IN  /\ Len(now) = Len(old) + 1
            /\ \A k \in 1..Len(old) : now[k] = old[k]
            /\ now[Len(now)] = file_call.entry

\* a text read_csv takes for a missing value comes back as the empty text
C15_TextLost ==
    /\ file_call.returned /\ ~file_call.fallback
    /\ \E k \in 1..Len(DataLines(file_call.before)) :
          /\ DataLines(file_call.before)[k][2] = "N/A"
          /\ DataLines(data_file)[k][2] = ""

====
